---- MODULE Spec2Model ----
(* A model of md2pdf (src/md2pdf/converter.py): the command-line driver     *)
(* main(), the single-document pipeline convert_markdown_to_pdf(), the      *)
(* placeholder substitution stage and the template parameter serializer.    *)
(* Text is modelled as sequences of one-character strings.                  *)
EXTENDS Integers, Sequences, FiniteSets, TLC

VARIABLES
  \* ---- main()
  pc,          \* position in main()
  args,        \* the parsed command line: which options were given
  rows,        \* list(csv.DictReader(f))
  converted,   \* calls of convert_markdown_to_pdf made by main: [row, out, ok]
  temp_pdfs,   \* merge mode: the per-row PDFs appended so far
  mergeTried,  \* merge providers run so far: [tool, inputs, result]
  files,       \* PDF files written by this run that exist
  invoked,     \* external converters started by this run
  failed,      \* the validation that failed, "none" if none did
  exit_code    \* process exit status, -1 while running

VARIABLES
  \* ---- convert_markdown_to_pdf()
  cpc,            \* position in convert_markdown_to_pdf()
  markdown_file,  \* argument: the input markdown path
  template_file,  \* argument: the template path
  fs,             \* the file system: path -> content, "absent" if no such file
  created,        \* the paths this call (or a tool it ran) has written
  locals,         \* which of temp_md, temp_template are bound in locals()
  ending,         \* "running", "success", "tool_failed" or "exception"
  raised_at       \* the position at which an exception was raised, else "none"

VARIABLES
  \* ---- the substitution stage and the parameter serializer
  document,   \* the text of the markdown file
  fields,     \* the resolved field mapping, in iteration order: [key, value]
  content,    \* the text the stage last produced
  previous,   \* the text the stage was last applied to
  applied,    \* "no", "once" or "twice": applications of the stage so far
  params      \* the parameter lines built from fields: [name, value]

mainVars == <<pc, args, rows, converted, temp_pdfs, mergeTried, files, invoked,
              failed, exit_code>>

convVars == <<cpc, markdown_file, template_file, fs, created, locals, ending,
              raised_at>>

textVars == <<document, fields, content, previous, applied, params>>

vars == <<mainVars, convVars, textVars>>

(***************************************************************************)
(* Bounds of the model.                                                    *)
(***************************************************************************)
MaxRows == 3
MaxPieces == 3
MaxFields == 2

(***************************************************************************)
(* Program constants.                                                      *)
(***************************************************************************)
\* a string longer than this is passed as bracketed content
LongStringLimit == 100

(***************************************************************************)
(* Text helpers.                                                           *)
(***************************************************************************)
\* str.replace(old, new) for a one-character old
ReplaceChar(s, old, new) == [i \in 1..Len(s) |-> IF s[i] = old THEN new ELSE s[i]]

Digit(n) == <<"0", "1", "2", "3", "4", "5", "6", "7", "8", "9">>[n + 1]

\* str(n) / f"{n}" for a natural number
RECURSIVE ToStr(_)
ToStr(n) == IF n < 10 THEN <<Digit(n)>> ELSE ToStr(n \div 10) \o <<Digit(n % 10)>>

(***************************************************************************)
(* main(): inputs.                                                         *)
(***************************************************************************)
\* which optional arguments were given on the command line
Args == [bibliography : BOOLEAN, csl : BOOLEAN, csv : BOOLEAN,
         merge_output : BOOLEAN]

\* csv.DictReader fills the missing fields of a short row with None
None == <<"None">>

RecipientValues == { <<"a", " ", "b">>, <<"a", "/", "b">>, <<"c">> }

\* a row of the CSV: whether the header has a recipient column, and its value
Rows == [has_recipient : {FALSE}, recipient : {None}]
          \cup [has_recipient : {TRUE}, recipient : RecipientValues \cup {None}]

RECURSIVE SeqsUpTo(_, _)
SeqsUpTo(S, n) ==
  IF n = 0 THEN {<<>>}
  ELSE LET shorter == SeqsUpTo(S, n - 1)
       IN  shorter \cup {Append(s, x) : s \in {t \in shorter : Len(t) = n - 1}, x \in S}

\* every row of one CSV has the columns of the header
CsvContents ==
  {r \in SeqsUpTo(Rows, MaxRows) :
     \A i, j \in 1..Len(r) : r[i].has_recipient = r[j].has_recipient}

\* output_pdf.stem and the names derived from it
OutputStem == <<"doc">>
OutputPdf == OutputStem \o <<".pdf">>
TempPdf(i) == OutputStem \o <<"_temp_">> \o ToStr(i) \o <<".pdf">>
SafeName(recipient) == ReplaceChar(ReplaceChar(recipient, " ", "_"), "/", "_")
RowOutput(i, row) ==
  IF row.has_recipient
  THEN OutputStem \o <<"_">> \o SafeName(row.recipient) \o <<".pdf">>
  ELSE OutputStem \o <<"_">> \o ToStr(i + 1) \o <<".pdf">>

\* how one call of convert_markdown_to_pdf can end
ConvertOutcomes == {"ok", "error_before_pandoc", "pandoc_failed", "typst_failed"}
ToolsStarted(outcome) ==
  CASE outcome = "error_before_pandoc" -> {}
    [] outcome = "pandoc_failed" -> {"pandoc"}
    [] OTHER -> {"pandoc", "typst"}

(***************************************************************************)
(* main(): the state machine.                                              *)
(***************************************************************************)
MainInit ==
  /\ pc = "check_typst"
  /\ args \in Args
  /\ rows = <<>>
  /\ converted = <<>>
  /\ temp_pdfs = <<>>
  /\ mergeTried = <<>>
  /\ files = {}
  /\ invoked = {}
  /\ failed = "none"
  /\ exit_code = -1

\* sys.exit(code)
SysExit(code) == pc' = "exit" /\ exit_code' = code

\* a validation that prints an error and exits 1, or goes on
Validate(here, what, next) ==
  /\ pc = here
  /\ \E present \in BOOLEAN :
       IF present
       THEN pc' = next /\ UNCHANGED <<failed, exit_code>>
       ELSE failed' = what /\ SysExit(1)
  /\ UNCHANGED <<args, rows, converted, temp_pdfs, mergeTried, files, invoked>>

CheckTypst == Validate("check_typst", "typst", "check_pandoc")

CheckPandoc == Validate("check_pandoc", "pandoc", "check_markdown")

CheckMarkdown == Validate("check_markdown", "markdown", "check_template")

AfterTemplate ==
  IF args.bibliography THEN "check_bibliography"
  ELSE IF args.csl THEN "check_csl"
  ELSE IF args.csv THEN "check_csv" ELSE "single"

\* the error is reported but sys.exit(1) is left out
CheckTemplate_NoExit ==
  /\ pc = "check_template"
  /\ \E present \in BOOLEAN :
       /\ pc' = AfterTemplate
       /\ failed' = IF present THEN failed ELSE "template"
  /\ UNCHANGED <<args, rows, converted, temp_pdfs, mergeTried, files, invoked, exit_code>>

CheckTemplate == Validate("check_template", "template", AfterTemplate)

AfterBibliography ==
  IF args.csl THEN "check_csl" ELSE IF args.csv THEN "check_csv" ELSE "single"

CheckBibliography == Validate("check_bibliography", "bibliography", AfterBibliography)

AfterCsl == IF args.csv THEN "check_csv" ELSE "single"

CheckCsl == Validate("check_csl", "csl", AfterCsl)

CheckCsv == Validate("check_csv", "csv", "read_csv")

ReadCsv ==
  /\ pc = "read_csv"
  /\ \E r \in CsvContents :
       /\ rows' = r
       /\ IF r = <<>>
          THEN failed' = "empty" /\ SysExit(1)
          ELSE /\ pc' = IF args.merge_output THEN "merge_loop" ELSE "row_loop"
               /\ UNCHANGED <<failed, exit_code>>
  /\ UNCHANGED <<args, converted, temp_pdfs, mergeTried, files, invoked>>

\* the loop without "if not success: sys.exit(1)"
MergeLoop_NoAbort ==
  /\ pc = "merge_loop"
  /\ LET i == Len(temp_pdfs)
         temp_pdf == TempPdf(i)
     IN \E outcome \in ConvertOutcomes :
          /\ converted' = Append(converted,
                                 [row |-> i + 1, out |-> temp_pdf, ok |-> outcome = "ok"])
          /\ invoked' = invoked \cup ToolsStarted(outcome)
          /\ files' = IF outcome = "ok" THEN files \cup {temp_pdf} ELSE files
          /\ temp_pdfs' = Append(temp_pdfs, temp_pdf)
          /\ pc' = IF i + 1 = Len(rows) THEN "pdfunite" ELSE "merge_loop"
  /\ UNCHANGED <<args, rows, mergeTried, failed, exit_code>>

\* one iteration of the merge-mode loop over the rows
MergeLoop ==
  /\ pc = "merge_loop"
  /\ LET i == Len(temp_pdfs)
         temp_pdf == TempPdf(i)
     IN \E outcome \in ConvertOutcomes :
          /\ converted' = Append(converted,
                                 [row |-> i + 1, out |-> temp_pdf, ok |-> outcome = "ok"])
          /\ invoked' = invoked \cup ToolsStarted(outcome)
          /\ IF outcome # "ok"
             THEN SysExit(1) /\ UNCHANGED <<temp_pdfs, files>>
             ELSE /\ files' = files \cup {temp_pdf}
                  /\ temp_pdfs' = Append(temp_pdfs, temp_pdf)
                  /\ pc' = IF i + 1 = Len(rows) THEN "pdfunite" ELSE "merge_loop"
                  /\ UNCHANGED exit_code
  /\ UNCHANGED <<args, rows, mergeTried, failed>>

Tried(tool, result) ==
  mergeTried' = Append(mergeTried, [tool |-> tool, inputs |-> temp_pdfs, result |-> result])

Pdfunite ==
  /\ pc = "pdfunite"
  /\ \E result \in {"ok", "nonzero", "not_found"} :
       /\ Tried("pdfunite", result)
       /\ files' = IF result = "ok" THEN files \cup {OutputPdf} ELSE files
       /\ pc' = CASE result = "ok" -> "cleanup"
                  [] result = "nonzero" -> "pdftk"
                  [] result = "not_found" -> "pypdf2"
  /\ UNCHANGED <<args, rows, converted, temp_pdfs, invoked, failed, exit_code>>

Pdftk ==
  /\ pc = "pdftk"
  /\ \E result \in {"ok", "nonzero", "not_found"} :
       /\ Tried("pdftk", result)
       /\ files' = IF result = "ok" THEN files \cup {OutputPdf} ELSE files
       /\ pc' = IF result = "ok" THEN "cleanup" ELSE "pypdf2"
  /\ UNCHANGED <<args, rows, converted, temp_pdfs, invoked, failed, exit_code>>

PyPdf2 ==
  /\ pc = "pypdf2"
  /\ \E result \in {"ok", "import_error"} :
       /\ Tried("PyPDF2", result)
       /\ IF result = "ok"
          THEN files' = files \cup {OutputPdf} /\ pc' = "cleanup" /\ UNCHANGED exit_code
          ELSE SysExit(1) /\ UNCHANGED files
  /\ UNCHANGED <<args, rows, converted, temp_pdfs, invoked, failed>>

CleanupTempPdfs ==
  /\ pc = "cleanup"
  /\ files' = files \ {temp_pdfs[k] : k \in 1..Len(temp_pdfs)}
  /\ SysExit(0)
  /\ UNCHANGED <<args, rows, converted, temp_pdfs, mergeTried, invoked, failed>>

\* one iteration of the per-row loop
RowLoop ==
  /\ pc = "row_loop"
  /\ LET i == Len(converted)
         row == rows[i + 1]
     IN IF row.has_recipient /\ row.recipient = None
        THEN \* None.replace raises AttributeError, which nothing catches
             SysExit(1) /\ UNCHANGED <<converted, files, invoked>>
        ELSE \E outcome \in ConvertOutcomes :
               /\ converted' = Append(converted,
                                      [row |-> i + 1, out |-> RowOutput(i, row),
                                       ok |-> outcome = "ok"])
               /\ invoked' = invoked \cup ToolsStarted(outcome)
               /\ files' = IF outcome = "ok" THEN files \cup {RowOutput(i, row)} ELSE files
               /\ IF i + 1 = Len(rows)
                  THEN SysExit(0)
                  ELSE pc' = "row_loop" /\ UNCHANGED exit_code
  /\ UNCHANGED <<args, rows, temp_pdfs, mergeTried, failed>>

\* single-document mode; the CSL path checked again there was checked before
Single ==
  /\ pc = "single"
  /\ \E outcome \in ConvertOutcomes :
       /\ converted' = Append(converted, [row |-> 0, out |-> OutputPdf, ok |-> outcome = "ok"])
       /\ invoked' = invoked \cup ToolsStarted(outcome)
       /\ files' = IF outcome = "ok" THEN files \cup {OutputPdf} ELSE files
       /\ SysExit(IF outcome = "ok" THEN 0 ELSE 1)
  /\ UNCHANGED <<args, rows, temp_pdfs, mergeTried, failed>>

MainNext ==
  \/ CheckTypst
  \/ CheckPandoc
  \/ CheckMarkdown
  \/ CheckTemplate
  \/ CheckBibliography
  \/ CheckCsl
  \/ CheckCsv
  \/ ReadCsv
  \/ MergeLoop
  \/ Pdfunite
  \/ Pdftk
  \/ PyPdf2
  \/ CleanupTempPdfs
  \/ RowLoop
  \/ Single

(***************************************************************************)
(* Strings: str.startswith, str.find, str.split(sep, 2), str.lstrip,       *)
(* str.replace.                                                            *)
(***************************************************************************)
StartsWith(s, prefix) ==
  Len(s) >= Len(prefix) /\ SubSeq(s, 1, Len(prefix)) = prefix

Drop(s, n) == SubSeq(s, n + 1, Len(s))

\* the least index >= from at which sub occurs in s, 0 if none
Find(s, sub, from) ==
  LET hits == {i \in from..(Len(s) - Len(sub) + 1) : SubSeq(s, i, i + Len(sub) - 1) = sub}
  IN  IF hits = {} THEN 0 ELSE CHOOSE i \in hits : \A j \in hits : i <= j

\* s.split(sep, 2): at most three parts
SplitMax2(s, sep) ==
  LET i1 == Find(s, sep, 1)
      i2 == Find(s, sep, i1 + Len(sep))
  IN  IF i1 = 0 THEN <<s>>
      ELSE IF i2 = 0 THEN <<SubSeq(s, 1, i1 - 1), Drop(s, i1 + Len(sep) - 1)>>
      ELSE <<SubSeq(s, 1, i1 - 1), SubSeq(s, i1 + Len(sep), i2 - 1),
             Drop(s, i2 + Len(sep) - 1)>>

Whitespace == {" ", "\n", "\t"}

RECURSIVE LStrip(_)
LStrip(s) == IF s # <<>> /\ Head(s) \in Whitespace THEN LStrip(Tail(s)) ELSE s

\* a replace that stops after the first occurrence
RECURSIVE Replace_FirstOnly(_, _, _)
Replace_FirstOnly(s, old, new) ==
  IF Len(s) < Len(old) THEN s
  ELSE IF StartsWith(s, old) THEN new \o Drop(s, Len(old))
  ELSE <<Head(s)>> \o Replace_FirstOnly(Tail(s), old, new)

\* s.replace(old, new) for a non-empty old: every occurrence, left to right
RECURSIVE Replace(_, _, _)
Replace(s, old, new) ==
  IF Len(s) < Len(old) THEN s
  ELSE IF StartsWith(s, old) THEN new \o Replace(Drop(s, Len(old)), old, new)
  ELSE <<Head(s)>> \o Replace(Tail(s), old, new)

(***************************************************************************)
(* The substitution stage of convert_markdown_to_pdf.                      *)
(***************************************************************************)
Delimiter == <<"-", "-", "-">>
DelimiterLine == Delimiter \o <<"\n">>

\* a field value: its Python type and its text (str(value) for a non-string)
Value(type, text) == [type |-> type, text |-> text]
IsStr(value) == value.type = "str"

\* f'{{{{{key}}}}}'
Placeholder(key) == <<"{", "{">> \o key \o <<"}", "}">>

\* the YAML frontmatter is removed when there are two delimiters
StripHeader(text) ==
  IF StartsWith(text, DelimiterLine)
  THEN LET parts == SplitMax2(text, Delimiter)
       IN  IF Len(parts) >= 3 THEN LStrip(parts[3]) ELSE text
  ELSE text

\* for key, value in fields.items(): content = content.replace(placeholder, value)
RECURSIVE ReplacePlaceholders(_, _)
ReplacePlaceholders(text, fs_) ==
  IF fs_ = <<>> THEN text
  ELSE LET f == Head(fs_)
       IN  ReplacePlaceholders(
             IF IsStr(f.value) THEN Replace(text, Placeholder(f.key), f.value.text)
             ELSE text,
             Tail(fs_))

SubstitutionStage(text, fs_) == ReplacePlaceholders(StripHeader(text), fs_)

(***************************************************************************)
(* Inputs of the substitution stage.                                       *)
(***************************************************************************)
Keys == { <<"a">>, <<"b">> }
SubstValues == { Value("str", <<"b">>), Value("str", <<>>),
                 Value("str", Placeholder(<<"b">>)), Value("int", <<"1">>) }

\* ordered mappings with unique keys
Mappings(values) ==
  {m \in SeqsUpTo([key : Keys, value : values], Cardinality(Keys)) :
     \A i, j \in 1..Len(m) : i # j => m[i].key # m[j].key}

Pieces == { Delimiter, <<"\n">>, <<"{", "{">>, <<"}", "}">>,
            Placeholder(<<"a">>), Placeholder(<<"b">>) }

RECURSIVE Flatten(_)
Flatten(ss) == IF ss = <<>> THEN <<>> ELSE Head(ss) \o Flatten(Tail(ss))

\* documents without and with a header block, followed by a few pieces
Documents ==
  {h \o Flatten(b) : h \in {<<>>, DelimiterLine \o DelimiterLine},
                     b \in SeqsUpTo(Pieces, MaxPieces)}

TextOff ==
  /\ document = <<>>
  /\ fields = <<>>
  /\ content = <<>>
  /\ previous = <<>>
  /\ applied = "off"
  /\ params = <<>>

SubstInit ==
  /\ document \in Documents
  /\ fields \in Mappings(SubstValues)
  /\ content = document
  /\ previous = document
  /\ applied = "no"
  /\ params = <<>>

\* the stage applied to the markdown file
Substitute ==
  /\ applied = "no"
  /\ previous' = content
  /\ content' = SubstitutionStage(content, fields)
  /\ applied' = "once"
  /\ UNCHANGED <<document, fields, params>>

\* the stage applied to its own output, with the same mapping
SubstituteAgain ==
  /\ applied = "once"
  /\ previous' = content
  /\ content' = SubstitutionStage(content, fields)
  /\ applied' = "twice"
  /\ UNCHANGED <<document, fields, params>>

SubstNext ==
  \/ Substitute
  \/ SubstituteAgain

(***************************************************************************)
(* Properties of the substitution stage.                                   *)
(***************************************************************************)
StrFields == {i \in 1..Len(fields) : IsStr(fields[i].value)}

\* one pass over the text: each placeholder of a string field is replaced where
\* it stands, and the text put in is not looked at again
RECURSIVE SinglePass(_)
SinglePass(text) ==
  IF text = <<>> THEN <<>>
  ELSE LET hits == {i \in StrFields : StartsWith(text, Placeholder(fields[i].key))}
       IN  IF hits = {} THEN <<Head(text)>> \o SinglePass(Tail(text))
           ELSE LET i == CHOOSE h \in hits : TRUE
                IN  fields[i].value.text
                      \o SinglePass(Drop(text, Len(Placeholder(fields[i].key))))

\* C7: the substituted text is the body with every placeholder of a string
\* field replaced at once; text brought in by a value is never substituted.
C7_SinglePassSubstitution ==
  applied = "once" => content = SinglePass(StripHeader(document))

Braces == {"{", "}"}
BraceFree(s) == \A i \in 1..Len(s) : s[i] \notin Braces

\* "{{...}}"-shaped text: an opening pair with a closing pair after it
HasPlaceholderShape(s) ==
  \E i, j \in 1..Len(s) :
    /\ j >= i + 2
    /\ SubSeq(s, i, i + 1) = <<"{", "{">>
    /\ SubSeq(s, j, j + 1) = <<"}", "}">>

HasHeader(text) ==
  StartsWith(text, DelimiterLine) /\ Len(SplitMax2(text, Delimiter)) >= 3

\* every brace of the text belongs to a {{name}} token with a brace-free name
RECURSIVE OnlyWholeTokens(_)
OnlyWholeTokens(text) ==
  IF text = <<>> THEN TRUE
  ELSE IF Head(text) \notin Braces THEN OnlyWholeTokens(Tail(text))
  ELSE /\ StartsWith(text, <<"{", "{">>)
       /\ LET rest == Drop(text, 2)
              close == Find(rest, <<"}", "}">>, 1)
          IN  /\ close # 0
              /\ BraceFree(SubSeq(rest, 1, close - 1))
              /\ OnlyWholeTokens(Drop(rest, close + 1))

\* C8 as stated: when no string value contains {{...}}-shaped text, the stage
\* applied to its own output leaves it unchanged.
C8_IdempotentWithoutShapedValues ==
  (applied = "twice" /\ \A i \in StrFields : ~HasPlaceholderShape(fields[i].value.text))
    => content = previous

\* C8 as amended: the stage applied to its own output leaves it unchanged when
\* the keys and string values hold no brace, every brace of the document body
\* belongs to a {{name}} token, and the first output does not itself begin
\* with a header block.
C8_IdempotentOnWholeTokens ==
  (/\ applied = "twice"
   /\ \A i \in 1..Len(fields) : BraceFree(fields[i].key)
   /\ \A i \in StrFields : BraceFree(fields[i].value.text)
   /\ OnlyWholeTokens(StripHeader(document))
   /\ ~HasHeader(previous))
    => content = previous

\* a document with a header whose placeholder was replaced by the first pass
C8_Witness ==
  /\ applied = "twice"
  /\ \A i \in StrFields : BraceFree(fields[i].value.text)
  /\ OnlyWholeTokens(StripHeader(document))
  /\ ~HasHeader(previous)
  /\ HasHeader(document)
  /\ previous # StripHeader(document)
  /\ content = previous

(***************************************************************************)
(* The template parameter serializer of convert_markdown_to_pdf.           *)
(***************************************************************************)
UpperCase == <<"A", "B", "C", "D", "E", "F", "G", "H", "I", "J", "K", "L", "M",
               "N", "O", "P", "Q", "R", "S", "T", "U", "V", "W", "X", "Y", "Z">>
LowerCase == <<"a", "b", "c", "d", "e", "f", "g", "h", "i", "j", "k", "l", "m",
               "n", "o", "p", "q", "r", "s", "t", "u", "v", "w", "x", "y", "z">>

LowerChar(c) ==
  IF \E i \in 1..Len(UpperCase) : UpperCase[i] = c
  THEN LowerCase[CHOOSE i \in 1..Len(UpperCase) : UpperCase[i] = c]
  ELSE c

\* str.lower()
Lower(s) == [i \in 1..Len(s) |-> LowerChar(s[i])]

RECURSIVE RStrip(_)
RStrip(s) ==
  IF s # <<>> /\ s[Len(s)] \in Whitespace THEN RStrip(SubSeq(s, 1, Len(s) - 1)) ELSE s

\* str.strip()
Strip(s) == RStrip(LStrip(s))

TemplateKey == <<"t", "e", "m", "p", "l", "a", "t", "e">>

\* key.replace(' ', '_').replace('-', '_').lower()
NormalizeKey(key) == Lower(ReplaceChar(ReplaceChar(key, " ", "_"), "-", "_"))

\* value.replace('\\', '\\\\').replace('"', '\\"')
EscapeQuoted(text) == Replace(Replace(text, <<"\\">>, <<"\\", "\\">>), <<"\"">>, <<"\\", "\"">>)

Quoted(text) == <<"\"">> \o text \o <<"\"">>

\* the Typst literal written for a value
FormatValue(value) ==
  CASE value.type = "str" ->
         IF (\E i \in 1..Len(value.text) : value.text[i] = "\n")
              \/ Len(value.text) > LongStringLimit
         THEN <<"[">> \o Strip(value.text) \o <<"]">>
         ELSE Quoted(EscapeQuoted(value.text))
    [] value.type = "bool" ->
         IF value.text = <<"True">> THEN <<"t", "r", "u", "e">>
         ELSE <<"f", "a", "l", "s", "e">>
    [] value.type \in {"int", "float"} -> value.text
    [] OTHER -> Quoted(Replace(EscapeQuoted(value.text), <<"\n">>, <<"\\", "n">>))

\* for key, value in fields.items(): skip 'template', else append a parameter
RECURSIVE BuildParams(_)
BuildParams(fs_) ==
  IF fs_ = <<>> THEN <<>>
  ELSE LET f == Head(fs_)
       IN  IF f.key = TemplateKey THEN BuildParams(Tail(fs_))
           ELSE <<[name |-> NormalizeKey(f.key), text |-> FormatValue(f.value)]>>
                  \o BuildParams(Tail(fs_))

\* f'  {normalized_key}: {text},'
ParamLine(param) == <<" ", " ">> \o param.name \o <<":", " ">> \o param.text \o <<",">>

SerKeys == { TemplateKey, <<"T", "e", "m", "p", "l", "a", "t", "e">>,
             <<"D", "u", "e", " ", "d", "a", "t", "e">>, <<"c", "c", "-", "l", "i", "s", "t">> }
SerValues == { Value("str", <<"T">>), Value("str", <<"a", "\"", "\\">>),
               Value("str", <<"x", "\n", "y", "\n">>),
               Value("str", [i \in 1..(LongStringLimit + 1) |-> "x"]),
               Value("bool", <<"True">>), Value("int", <<"4", "2">>),
               Value("list", <<"[", "1", "]">>) }

SerMappings ==
  {m \in SeqsUpTo([key : SerKeys, value : SerValues], MaxFields) :
     \A i, j \in 1..Len(m) : i # j => m[i].key # m[j].key}

SerInit ==
  /\ document = <<>>
  /\ fields \in SerMappings
  /\ content = <<>>
  /\ previous = <<>>
  /\ applied = "no"
  /\ params = <<>>

\* the parameters are built from the resolved fields
Serialize ==
  /\ applied = "no"
  /\ params' = BuildParams(fields)
  /\ applied' = "once"
  /\ UNCHANGED <<document, fields, content, previous>>

SerNext == Serialize

(***************************************************************************)
(* Properties of the serializer.                                           *)
(***************************************************************************)
NotTemplateField(f) == f.key # TemplateKey

\* C9: one parameter per field other than the template key, in iteration
\* order, under the normalized key; no parameter is named template.
C9_OneParamPerFieldNoneNamedTemplate ==
  applied = "once" =>
    LET kept == SelectSeq(fields, NotTemplateField)
    IN  /\ Len(params) = Len(kept)
        /\ \A i \in 1..Len(params) : params[i].name = NormalizeKey(kept[i].key)
        /\ \A i \in 1..Len(params) : params[i].name # TemplateKey

(***************************************************************************)
(* convert_markdown_to_pdf(): paths.  A path is a directory and a name, the *)
(* name a stem followed by its dotted suffixes.                            *)
(***************************************************************************)
Path(dir, name) == [dir |-> dir, name |-> name]

\* Path.with_suffix: the last suffix is replaced, or the suffix added if none
WithSuffix(p, suffix) ==
  Path(p.dir, IF Len(p.name) > 1 THEN SubSeq(p.name, 1, Len(p.name) - 1) \o suffix
              ELSE p.name \o suffix)

output_pdf == Path("out", <<"doc", ".pdf">>)
temp_typst == WithSuffix(output_pdf, <<".typ">>)
temp_md == WithSuffix(output_pdf, <<".temp", ".md">>)
\* temp_typst.parent / template_file.name
temp_template == Path(temp_typst.dir, template_file.name)

MarkdownFiles == {Path("in", <<"doc", ".md">>), Path("out", <<"doc", ".md">>),
                  Path("out", <<"doc", ".temp", ".md">>)}
TemplateFiles == {Path("tpl", <<"letter", ".typ">>), Path("out", <<"letter", ".typ">>),
                  Path("tpl", <<"doc", ".typ">>), Path("out", <<"doc", ".typ">>)}
Paths == MarkdownFiles \cup TemplateFiles \cup {output_pdf, temp_typst, temp_md}
Contents == {"absent", "markdown", "template", "other", "substituted", "typst_body",
             "assembled", "pdf"}

Write(f, p, data) == [f EXCEPT ![p] = data]
\* Path.unlink() of every path of P
Unlink(f, P) == [p \in DOMAIN f |-> IF p \in P THEN "absent" ELSE f[p]]
Exists(f, p) == f[p] # "absent"

ConvOff ==
  /\ cpc = "off"
  /\ markdown_file = Path("in", <<"doc", ".md">>)
  /\ template_file = Path("tpl", <<"letter", ".typ">>)
  /\ fs = [p \in Paths |-> "absent"]
  /\ created = {}
  /\ locals = {}
  /\ ending = "running"
  /\ raised_at = "none"

\* the two inputs exist; files of the output directory may exist beforehand
ConvInit ==
  /\ cpc = "parse"
  /\ markdown_file \in MarkdownFiles
  /\ template_file \in TemplateFiles
  /\ fs \in {f \in [Paths -> {"absent", "markdown", "template", "other"}] :
               /\ f[markdown_file] = "markdown"
               /\ f[template_file] = "template"
               /\ \A p \in Paths \ {markdown_file, template_file} :
                    /\ f[p] \in {"absent", "other"}
                    /\ (p.dir # "out" \/ p = output_pdf) => f[p] = "absent"}
  /\ created = {}
  /\ locals = {}
  /\ ending = "running"
  /\ raised_at = "none"

(***************************************************************************)
(* convert_markdown_to_pdf(): the exception handlers and the steps.        *)
(***************************************************************************)
\* the handler that forgets the substituted markdown
HandleException_KeepsTempMd(f, locs) ==
  Unlink(f, {temp_typst} \cup (IF "temp_template" \in locs THEN {temp_template} ELSE {}))

\* except Exception: unlink what exists of temp_typst, temp_template, temp_md
HandleException(f, locs) ==
  Unlink(f, {temp_typst}
            \cup (IF "temp_template" \in locs THEN {temp_template} ELSE {})
            \cup (IF "temp_md" \in locs THEN {temp_md} ELSE {}))

\* except subprocess.CalledProcessError: report, delete nothing, return False
ReturnToolFailed ==
  /\ cpc' = "returned"
  /\ ending' = "tool_failed"
  /\ raised_at' = cpc

\* except Exception: delete the temporary files, return False
ReturnException(f, locs) ==
  /\ cpc' = "returned"
  /\ ending' = "exception"
  /\ raised_at' = cpc
  /\ fs' = HandleException(f, locs)

\* fields = parse_header_fields(markdown_file); fields.update(override_fields)
ParseFields ==
  /\ cpc = "parse"
  /\ \E raised \in BOOLEAN :
       IF raised
       THEN ReturnException(fs, locals)
       ELSE cpc' = "write_md" /\ UNCHANGED <<fs, ending, raised_at>>
  /\ UNCHANGED <<markdown_file, template_file, created, locals>>

\* temp_md is bound, the markdown read and substituted, temp_md written
WriteTempMd ==
  /\ cpc = "write_md"
  /\ locals' = locals \cup {"temp_md"}
  /\ \E raised \in BOOLEAN :
       IF raised
       THEN ReturnException(fs, locals') /\ UNCHANGED created
       ELSE /\ fs' = Write(fs, temp_md, "substituted")
            /\ created' = created \cup {temp_md}
            /\ cpc' = "pandoc"
            /\ UNCHANGED <<ending, raised_at>>
  /\ UNCHANGED <<markdown_file, template_file>>

\* subprocess.run(pandoc_cmd, check=True)
RunPandoc ==
  /\ cpc = "pandoc"
  /\ \E result \in {"ok", "nonzero", "not_found"} :
       CASE result = "ok" ->
              /\ fs' = Write(fs, temp_typst, "typst_body")
              /\ created' = created \cup {temp_typst}
              /\ cpc' = "read_typst"
              /\ UNCHANGED <<ending, raised_at>>
         [] result = "nonzero" -> ReturnToolFailed /\ UNCHANGED <<fs, created>>
         [] result = "not_found" -> ReturnException(fs, locals) /\ UNCHANGED created
  /\ UNCHANGED <<markdown_file, template_file, locals>>

\* typst_body is read from temp_typst, then temp_md.unlink()
ReadTypstBody ==
  /\ cpc = "read_typst"
  /\ fs' = Unlink(fs, {temp_md})
  /\ cpc' = "copy_template"
  /\ UNCHANGED <<markdown_file, template_file, created, locals, ending, raised_at>>

\* temp_template is bound; shutil.copy raises SameFileError on the same file
CopyTemplate ==
  /\ cpc = "copy_template"
  /\ locals' = locals \cup {"temp_template"}
  /\ IF temp_template = template_file \/ ~Exists(fs, template_file)
     THEN ReturnException(fs, locals') /\ UNCHANGED created
     ELSE /\ fs' = Write(fs, temp_template, fs[template_file])
          /\ created' = created \cup {temp_template}
          /\ cpc' = "assemble"
          /\ UNCHANGED <<ending, raised_at>>
  /\ UNCHANGED <<markdown_file, template_file>>

\* the template is read, the parameters built, temp_typst written
Assemble ==
  /\ cpc = "assemble"
  /\ fs' = Write(fs, temp_typst, "assembled")
  /\ created' = created \cup {temp_typst}
  /\ cpc' = "typst"
  /\ UNCHANGED <<markdown_file, template_file, locals, ending, raised_at>>

\* subprocess.run(['typst', 'compile', temp_typst, output_pdf], check=True)
RunTypst ==
  /\ cpc = "typst"
  /\ \E result \in {"ok", "nonzero", "not_found"} :
       CASE result = "ok" ->
              /\ fs' = Write(fs, output_pdf, "pdf")
              /\ created' = created \cup {output_pdf}
              /\ cpc' = "cleanup"
              /\ UNCHANGED <<ending, raised_at>>
         [] result = "nonzero" -> ReturnToolFailed /\ UNCHANGED <<fs, created>>
         [] result = "not_found" -> ReturnException(fs, locals) /\ UNCHANGED created
  /\ UNCHANGED <<markdown_file, template_file, locals>>

\* temp_typst.unlink(); temp_template.unlink() if it exists; return True
CleanupTempFiles ==
  /\ cpc = "cleanup"
  /\ fs' = Unlink(fs, {temp_typst, temp_template})
  /\ cpc' = "returned"
  /\ ending' = "success"
  /\ UNCHANGED <<markdown_file, template_file, created, locals, raised_at>>

ConvNext ==
  \/ ParseFields
  \/ WriteTempMd
  \/ RunPandoc
  \/ ReadTypstBody
  \/ CopyTemplate
  \/ Assemble
  \/ RunTypst
  \/ CleanupTempFiles

(***************************************************************************)
(* Properties of convert_markdown_to_pdf().                                *)
(***************************************************************************)
Returned == cpc = "returned"
Artifacts == created \ {output_pdf}

\* C1 as stated: when the call returns, whatever its ending, none of the
\* intermediate files it created exists.
C1_NoArtifactSurvivesAnyExit ==
  Returned => \A p \in Artifacts : ~Exists(fs, p)

\* C1 as amended: when the call returns after success or after an exception
\* other than a tool's non-zero exit, none of the intermediate files it created
\* exists; after a non-zero exit of pandoc the substituted markdown is still
\* there, and after a non-zero exit of typst the assembled markup and the
\* copied template are.
C1_ArtifactsRemovedUnlessToolFailed ==
  Returned =>
     /\ ending \in {"success", "exception"} => \A p \in Artifacts : ~Exists(fs, p)
     /\ (ending = "tool_failed" /\ raised_at = "pandoc") => fs[temp_md] = "substituted"
     /\ (ending = "tool_failed" /\ raised_at = "typst") =>
          fs[temp_typst] = "assembled" /\ Exists(fs, temp_template)

\* pandoc could not be started after the substituted markdown was written
C1_Witness ==
  /\ Returned
  /\ ending = "exception"
  /\ raised_at = "pandoc"
  /\ temp_md \in created
  /\ ~Exists(fs, temp_md)

\* C10: whatever the paths and the exit path, the input markdown and the
\* template exist afterwards with their content unchanged.
C10_InputsUntouched ==
  Returned => fs[markdown_file] = "markdown" /\ fs[template_file] = "template"

(***************************************************************************)
(* Properties of main().                                                   *)
(***************************************************************************)
MergeMode == args.csv /\ args.merge_output
PerRowMode == args.csv /\ ~args.merge_output
Exited == pc = "exit"
ToolsTried == [k \in 1..Len(mergeTried) |-> mergeTried[k].tool]
IsPrefix(s, t) == Len(s) <= Len(t) /\ \A k \in 1..Len(s) : s[k] = t[k]

\* C2: in merge mode a failed row conversion is the last conversion made, no
\* merge provider runs, the final output is not written and the process has
\* exited with status 1.
C2_MergeAbortsOnFirstFailure ==
  (MergeMode /\ \E k \in 1..Len(converted) : ~converted[k].ok) =>
     /\ \A k \in 1..Len(converted) : ~converted[k].ok => k = Len(converted)
     /\ mergeTried = <<>>
     /\ OutputPdf \notin files
     /\ Exited
     /\ exit_code = 1

\* row 2 of 3 failed after row 1 succeeded
C2_Witness ==
  /\ MergeMode
  /\ Len(rows) = 3
  /\ Len(converted) = 2
  /\ converted[1].ok
  /\ ~converted[2].ok
  /\ Exited

\* C3: after all rows converted, the providers run in the order pdfunite,
\* pdftk, PyPDF2; pdftk runs whenever pdfunite did not succeed, PyPDF2 whenever
\* neither tool succeeded, none runs after a success, and each gets the per-row
\* PDFs in row order.
C3_ProvidersInFallbackOrder ==
  (Exited /\ MergeMode /\ rows # <<>> /\ Len(temp_pdfs) = Len(rows)) =>
     /\ mergeTried # <<>>
     /\ IsPrefix(ToolsTried, <<"pdfunite", "pdftk", "PyPDF2">>)
     /\ mergeTried[1].result # "ok" => Len(mergeTried) >= 2
     /\ (Len(mergeTried) >= 2 /\ mergeTried[2].result # "ok") => Len(mergeTried) = 3
     /\ \A k \in 1..Len(mergeTried) : mergeTried[k].result = "ok" => k = Len(mergeTried)
     /\ \A k \in 1..Len(mergeTried) :
          mergeTried[k].inputs = [j \in 1..Len(rows) |-> TempPdf(j - 1)]

\* C4: in per-row mode every row is converted exactly once, in row order,
\* whatever the earlier rows' results; no merge provider runs; exit status 0.
C4_EveryRowConvertedExitZero ==
  (Exited /\ PerRowMode /\ failed = "none") =>
     /\ Len(converted) = Len(rows)
     /\ \A k \in 1..Len(converted) : converted[k].row = k
     /\ mergeTried = <<>>
     /\ exit_code = 0

\* C5: in per-row mode, when all N conversions succeeded, N output PDFs exist
\* at exit and no two rows wrote the same file.
C5_OneOutputPerRow ==
  (Exited /\ PerRowMode /\ failed = "none" /\ Len(converted) = Len(rows)
     /\ \A k \in 1..Len(converted) : converted[k].ok) =>
     /\ Cardinality(files) = Len(rows)
     /\ \A k \in 1..Len(converted) : converted[k].out \in files
     /\ \A j, k \in 1..Len(converted) : j # k => converted[j].out # converted[k].out

\* C6: when a required tool or a given input file is missing, or the CSV has
\* no data rows, the process has exited with status 1 and has converted
\* nothing, started no converter and no merge provider, and written no file.
C6_ValidationFailureDoesNoWork ==
  failed # "none" =>
     /\ Exited
     /\ exit_code = 1
     /\ converted = <<>>
     /\ invoked = {}
     /\ mergeTried = <<>>
     /\ files = {}

\* the CSV exists but has no data rows
C6_Witness == failed = "empty" /\ Exited /\ args.merge_output

MainOff ==
  /\ pc = "off"
  /\ args = [bibliography |-> FALSE, csl |-> FALSE, csv |-> FALSE, merge_output |-> FALSE]
  /\ rows = <<>>
  /\ converted = <<>>
  /\ temp_pdfs = <<>>
  /\ mergeTried = <<>>
  /\ files = {}
  /\ invoked = {}
  /\ failed = "none"
  /\ exit_code = -1

\* the command-line driver
Init == MainInit /\ ConvOff /\ TextOff

Next == MainNext /\ UNCHANGED <<convVars, textVars>>

Spec == Init /\ [][Next]_vars

\* one call of convert_markdown_to_pdf
InitConv == ConvInit /\ MainOff /\ TextOff

NextConv == ConvNext /\ UNCHANGED <<mainVars, textVars>>

SpecConv == InitConv /\ [][NextConv]_vars

\* the substitution stage, applied once and then to its own output
InitSubst == SubstInit /\ MainOff /\ ConvOff

NextSubst == SubstNext /\ UNCHANGED <<mainVars, convVars>>

SpecSubst == InitSubst /\ [][NextSubst]_vars

\* the parameter serializer
InitSer == SerInit /\ MainOff /\ ConvOff

NextSer == SerNext /\ UNCHANGED <<mainVars, convVars>>

SpecSer == InitSer /\ [][NextSer]_vars
====
